---------------------------- MODULE Spec2Model ----------------------------
(***************************************************************************)
(* A model of the design-pattern examples of the repository.  Every        *)
(* example is an independent program, so every example has its own         *)
(* variables, its own actions and its own specification (SpecChain,        *)
(* SpecSingleton, SpecSingletonMT, SpecFlyweight, SpecFlyweightFactories,  *)
(* SpecBuilder,                                                            *)
(* SpecComposite, SpecDecorator, SpecProxy, SpecFacade,                    *)
(* SpecAbstractFactory, SpecBridge); the variables of the other examples   *)
(* keep their initial values.                                              *)
(***************************************************************************)
EXTENDS Naturals, Integers, Sequences, FiniteSets, TLC

VARIABLES
    \* behavioral/chain_of_responsibility.py
    next_handler,   \* AbstractHandler._next_handler of every handler object
    h_state,        \* "idle", "running", "returned", "raised": the client's handle call
    h_start,        \* the handler the client called handle on
    h_request,      \* the request of the call
    h_cur,          \* the handler whose handle frame is executing
    h_depth,        \* number of nested concrete handle invocations
    h_consulted,    \* the handlers whose handle was invoked by the call
    h_result,       \* the value returned to the client
    chain_op,       \* the client statement executed last
    set_next_ret,   \* the value returned by the last set_next expression
    \* creational/singleton.py
    instances,      \* SingletonMeta._instances: class -> instance (None: no key)
    s_objects,      \* the objects constructed so far: s_objects[id] is the class
    s_pc,           \* position of every thread in SingletonMeta.__call__
    s_cls,          \* cls of the call every thread is in
    s_args,         \* args of the call every thread is in
    s_instance,     \* the local variable instance of every thread
    s_log,          \* the requests that have ended, in order, with their outcome
    \* structural/flyweight.py
    flyweights,     \* FlyweightFactory._flyweights (class attribute): key -> object
    fly_heap,       \* the Flyweight objects created: fly_heap[id] is _shared_state
    fly_factories,  \* number of FlyweightFactory objects constructed
    fly_held,       \* the client's variable flyweight: the object returned last
    fly_op,         \* the client statement executed last
    fly_prev,       \* the client statement executed before it
    fly_out,        \* what the last Flyweight.operation printed
    \* creational/builder.py
    b_heap,         \* the Product1 objects created: b_heap[id] is parts
    b_product,      \* ConcreteBuilder1._product: the object being built
    b_fetched,      \* the object the last builder.product returned to the client
    b_calls,        \* the produce_part_* calls made since the last fetch
    b_op,           \* the client statement executed last
    d_builder,      \* Director._builder
    b_returned,     \* the products the fetches so far returned, in order
    \* structural/composite.py
    children,       \* Composite._children of every composite object
    parent,         \* Component._parent of every component ("unset": no attribute)
    c_op,           \* the client statement executed last
    c_result,       \* the value the last operation() returned
    \* structural/decorator.py
    dec_heap,       \* the component objects: class and Decorator._component
    dec_op,         \* the object whose operation() the client called last
    dec_result,     \* the value that call returned
    \* structural/proxy.py
    p_calls,        \* the client's request() calls so far, each with its events
    p_pc,           \* the statement of Proxy.request the current call is at
    \* structural/facade.py
    f_objects,      \* the class of every subsystem object
    f_globals,      \* the module's variables subsystem1 and subsystem2
    f_facades,      \* the Facade objects: constructor arguments, _subsystem1/2
    f_op,           \* the client statement executed last
    f_calls,        \* the subsystem calls the last operation() made, in order
    f_result,       \* the value the last operation() returned
    \* creational/abstract_factory.py
    af_products,    \* the products created so far: class and creating factory
    af_result,      \* the value the last another_useful_function_b returned
    \* structural/bridge.py
    br_abstractions,\* the abstraction objects: class and .implementation
    br_assigned,    \* per abstraction, the implementations the client gave it
    br_op,          \* the abstraction whose operation() was called last
    br_called,      \* the implementation object that call delegated to
    br_result,      \* the value that call returned
    \* structural/flyweight.py: the factory objects
    fly_call,       \* the factory method called last, with its factory object
    fly_by,         \* per key, the factory through which its entry was stored
    fly_count       \* the count list_flyweights printed in the last statement

chainVars == <<next_handler, h_state, h_start, h_request, h_cur, h_depth,
               h_consulted, h_result, chain_op, set_next_ret>>

singVars == <<instances, s_objects, s_pc, s_cls, s_args, s_instance, s_log>>

flyVars == <<flyweights, fly_heap, fly_factories, fly_held, fly_op, fly_prev,
             fly_out>>

buildVars == <<b_heap, b_product, b_fetched, b_calls, b_op, d_builder, b_returned>>

compVars == <<children, parent, c_op, c_result>>

decVars == <<dec_heap, dec_op, dec_result>>

proxyVars == <<p_calls, p_pc>>

facVars == <<f_objects, f_globals, f_facades, f_op, f_calls, f_result>>

afVars == <<af_products, af_result>>

bridgeVars == <<br_abstractions, br_assigned, br_op, br_called, br_result>>

flyFactoryVars == <<fly_call, fly_by, fly_count>>

\* The variables of the examples other than the first four.
moreVars == <<compVars, decVars, proxyVars, facVars, afVars, bridgeVars, flyFactoryVars>>

\* The variables of the examples other than the composite.
notCompVars ==
    <<chainVars, singVars, flyVars, buildVars, decVars, proxyVars,
      facVars, afVars, bridgeVars, flyFactoryVars>>

\* The variables of the examples other than the decorator.
notDecVars ==
    <<chainVars, singVars, flyVars, buildVars, compVars, proxyVars,
      facVars, afVars, bridgeVars, flyFactoryVars>>

\* The variables of the examples other than the proxy.
notProxyVars ==
    <<chainVars, singVars, flyVars, buildVars, compVars, decVars,
      facVars, afVars, bridgeVars, flyFactoryVars>>

\* The variables of the examples other than the facade.
notFacVars ==
    <<chainVars, singVars, flyVars, buildVars, compVars, decVars,
      proxyVars, afVars, bridgeVars, flyFactoryVars>>

\* The variables of the examples other than the abstract factory.
notAfVars ==
    <<chainVars, singVars, flyVars, buildVars, compVars, decVars,
      proxyVars, facVars, bridgeVars, flyFactoryVars>>

\* The variables of the examples other than the bridge.
notBridgeVars ==
    <<chainVars, singVars, flyVars, buildVars, compVars, decVars,
      proxyVars, facVars, afVars, flyFactoryVars>>

vars == <<chainVars, singVars, flyVars, buildVars, moreVars>>

---------------------------------------------------------------------------
(***************************************************************************)
(* Chain of Responsibility                                                 *)
(***************************************************************************)

\* Number of handler objects the client creates.
NumHandlers == 3

\* Depth of nested handle invocations at which the interpreter raises
\* RecursionError; larger than every acyclic chain of the model.
RecursionLimit == 6

\* The absent successor / the absent result.
None == 0
NoResult == "None"

Handlers == 1 .. NumHandlers

HandlerClasses == <<"Monkey", "Squirrel", "Dog">>

\* The class of handler object h: the client creates a monkey, a squirrel,
\* a dog, and then further objects of the same classes in that order.
ClassOf(h) == HandlerClasses[((h - 1) % Len(HandlerClasses)) + 1]

Requests == {"Nut", "Banana", "Cup of coffee", "MeatBall"}

\* The condition of the if statement of each concrete handle.
Recognizes(h, request) ==
    CASE ClassOf(h) = "Monkey"   -> request = "Banana"
      [] ClassOf(h) = "Squirrel" -> request = "Nut"
      [] ClassOf(h) = "Dog"      -> request = "MeatBall"

\* The f-string a concrete handler returns for a request it recognizes.
Reply(h, request) == ClassOf(h) \o ": I'll eat the " \o request

set_next_refuses_self(nh, self, handler) ==
    IF handler = self THEN [nh |-> nh, ret |-> handler]
    ELSE [nh |-> [nh EXCEPT ![self] = handler], ret |-> handler]

set_next_returns_self(nh, self, handler) ==
    [nh |-> [nh EXCEPT ![self] = handler], ret |-> self]

\* AbstractHandler.set_next: the successors after the call and its result.
set_next(nh, self, handler) ==
    [nh |-> [nh EXCEPT ![self] = handler], ret |-> handler]

Successor_self(nh, self) == self

Successor_skip(nh, self) == IF nh[self] = None THEN None ELSE nh[nh[self]]

\* AbstractHandler.handle: the handler the request is forwarded to.
Successor(nh, self) == nh[self]

NoOp == [op |-> "none", a |-> None, b |-> None, c |-> None]

InitChain ==
    /\ next_handler = [h \in Handlers |-> None]
    /\ h_state = "idle"
    /\ h_start = None
    /\ h_request = NoResult
    /\ h_cur = None
    /\ h_depth = 0
    /\ h_consulted = {}
    /\ h_result = NoResult
    /\ chain_op = NoOp
    /\ set_next_ret = None

\* The client's call has ended; its record is dropped by the next statement.
CallOver == h_state # "running"

ClearCall ==
    /\ h_state' = "idle"
    /\ h_start' = None
    /\ h_request' = NoResult
    /\ h_cur' = None
    /\ h_depth' = 0
    /\ h_consulted' = {}
    /\ h_result' = NoResult

\* Client statement a.set_next(b).
SetNext(a, b) ==
    /\ CallOver
    /\ LET r == set_next(next_handler, a, b) IN
         /\ next_handler' = r.nh
         /\ set_next_ret' = r.ret
    /\ chain_op' = [op |-> "set_next", a |-> a, b |-> b, c |-> None]
    /\ ClearCall
    /\ UNCHANGED <<singVars, flyVars, buildVars, moreVars>>

\* Client statement a.set_next(b).set_next(c): the second call is made on
\* the value the first call returns.
SetNextChained(a, b, c) ==
    /\ CallOver
    /\ LET r1 == set_next(next_handler, a, b)
           r2 == set_next(r1.nh, r1.ret, c) IN
         /\ next_handler' = r2.nh
         /\ set_next_ret' = r2.ret
    /\ chain_op' = [op |-> "set_next_chained", a |-> a, b |-> b, c |-> c]
    /\ ClearCall
    /\ UNCHANGED <<singVars, flyVars, buildVars, moreVars>>

\* Client statement handler.handle(request): the first frame is entered.
Handle(h, request) ==
    /\ CallOver
    /\ h_state' = "running"
    /\ h_start' = h
    /\ h_request' = request
    /\ h_cur' = h
    /\ h_depth' = 1
    /\ h_consulted' = {}
    /\ h_result' = NoResult
    /\ chain_op' = [op |-> "handle", a |-> h, b |-> None, c |-> None]
    /\ UNCHANGED <<next_handler, set_next_ret>>
    /\ UNCHANGED <<singVars, flyVars, buildVars, moreVars>>

\* One concrete handle invocation, with the super().handle call it makes.
HandleStep ==
    /\ h_state = "running"
    /\ h_consulted' = h_consulted \cup {h_cur}
    /\ IF Recognizes(h_cur, h_request)
       THEN /\ h_state' = "returned"
            /\ h_result' = Reply(h_cur, h_request)
            /\ UNCHANGED <<h_cur, h_depth>>
       ELSE IF Successor(next_handler, h_cur) # None
       THEN IF h_depth >= RecursionLimit
            THEN /\ h_state' = "raised"
                 /\ h_result' = "RecursionError"
                 /\ UNCHANGED <<h_cur, h_depth>>
            ELSE /\ h_cur' = Successor(next_handler, h_cur)
                 /\ h_depth' = h_depth + 1
                 /\ UNCHANGED <<h_state, h_result>>
       ELSE /\ h_state' = "returned"
            /\ h_result' = NoResult
            /\ UNCHANGED <<h_cur, h_depth>>
    /\ UNCHANGED <<next_handler, h_start, h_request, chain_op, set_next_ret>>
    /\ UNCHANGED <<singVars, flyVars, buildVars, moreVars>>

NextChain ==
    \/ \E a, b \in Handlers : SetNext(a, b)
    \/ \E a, b, c \in Handlers : SetNextChained(a, b, c)
    \/ \E h \in Handlers, request \in Requests : Handle(h, request)
    \/ HandleStep

---------------------------------------------------------------------------
(***************************************************************************)
(* Singleton                                                               *)
(***************************************************************************)

\* Number of classes declared with metaclass=SingletonMeta, each declared
\* like Singleton: no __init__ and no __new__ of its own.
NumClasses == 2

\* Number of threads that issue creation requests concurrently.
NumThreads == 2

\* Number of creation requests issued in a run.
MaxCalls == 3

Classes == 1 .. NumClasses

Threads == 1 .. NumThreads

\* The single-threaded program: the main thread alone.
MainThread == {1}

\* The positional arguments of a creation request: Singleton(), Singleton("x").
CtorArgs == {<<>>, <<"x">>}

IsCached_never(reg, cls) == FALSE

\* cls in cls._instances
IsCached(reg, cls) == reg[cls] # None

\* type.__call__ of a class that defines neither __init__ nor __new__:
\* object.__new__ accepts no extra arguments and raises TypeError on any.
CtorAccepts(args) == args = <<>>

InitSingleton ==
    /\ instances = [cls \in Classes |-> None]
    /\ s_objects = <<>>
    /\ s_pc = [t \in Threads |-> "idle"]
    /\ s_cls = [t \in Threads |-> None]
    /\ s_args = [t \in Threads |-> <<>>]
    /\ s_instance = [t \in Threads |-> None]
    /\ s_log = <<>>

CallsStarted == Len(s_log) + Cardinality({t \in Threads : s_pc[t] # "idle"})

\* Thread t requests cls(*args): SingletonMeta.__call__ is entered and the
\* condition cls not in cls._instances is evaluated.
Call(t, cls, args) ==
    /\ s_pc[t] = "idle"
    /\ CallsStarted < MaxCalls
    /\ s_cls' = [s_cls EXCEPT ![t] = cls]
    /\ s_args' = [s_args EXCEPT ![t] = args]
    /\ s_instance' = [s_instance EXCEPT ![t] = None]
    /\ s_pc' = [s_pc EXCEPT ![t] =
                  IF IsCached(instances, cls) THEN "return" ELSE "construct"]
    /\ UNCHANGED <<instances, s_objects, s_log>>
    /\ UNCHANGED <<chainVars, flyVars, buildVars, moreVars>>

\* instance = super().__call__(*args, **kwargs)
Construct(t) ==
    /\ s_pc[t] = "construct"
    /\ IF CtorAccepts(s_args[t])
       THEN /\ s_objects' = Append(s_objects, s_cls[t])
            /\ s_instance' = [s_instance EXCEPT ![t] = Len(s_objects) + 1]
            /\ s_pc' = [s_pc EXCEPT ![t] = "store"]
            /\ UNCHANGED s_log
       ELSE \* TypeError leaves __call__; nothing is stored
            /\ s_log' = Append(s_log, [cls |-> s_cls[t], args |-> s_args[t],
                                       ret |-> None])
            /\ s_pc' = [s_pc EXCEPT ![t] = "idle"]
            /\ UNCHANGED <<s_objects, s_instance>>
    /\ UNCHANGED <<instances, s_cls, s_args>>
    /\ UNCHANGED <<chainVars, flyVars, buildVars, moreVars>>

\* cls._instances[cls] = instance
Store(t) ==
    /\ s_pc[t] = "store"
    /\ instances' = [instances EXCEPT ![s_cls[t]] = s_instance[t]]
    /\ s_pc' = [s_pc EXCEPT ![t] = "return"]
    /\ UNCHANGED <<s_objects, s_cls, s_args, s_instance, s_log>>
    /\ UNCHANGED <<chainVars, flyVars, buildVars, moreVars>>

\* return cls._instances[cls]
Return(t) ==
    /\ s_pc[t] = "return"
    /\ s_log' = Append(s_log, [cls |-> s_cls[t], args |-> s_args[t],
                               ret |-> instances[s_cls[t]]])
    /\ s_pc' = [s_pc EXCEPT ![t] = "idle"]
    /\ UNCHANGED <<instances, s_objects, s_cls, s_args, s_instance>>
    /\ UNCHANGED <<chainVars, flyVars, buildVars, moreVars>>

NextSingletonOf(T) ==
    \/ \E t \in T, cls \in Classes, args \in CtorArgs : Call(t, cls, args)
    \/ \E t \in T : Construct(t)
    \/ \E t \in T : Store(t)
    \/ \E t \in T : Return(t)

NextSingleton == NextSingletonOf(MainThread)

NextSingletonMT == NextSingletonOf(Threads)

---------------------------------------------------------------------------
(***************************************************************************)
(* Flyweight                                                               *)
(***************************************************************************)

\* Number of Flyweight objects created in a run.
MaxObjects == 2

\* Number of FlyweightFactory objects constructed in a run.
MaxFactories == 2

\* Length of the initial_flyweights list given to a factory.
MaxInitial == 2

\* Strings are sequences of character codes, compared as Python compares
\* str values: "a", "b", "a_b", "o", "p".
StrA == <<97>>
StrB == <<98>>
StrA_B == <<97, 95, 98>>
StrO == <<111>>
StrP == <<112>>

\* The shared_state lists the client passes.
SharedStates == {<<StrA, StrB>>, <<StrB, StrA>>, <<StrA_B>>, <<StrA>>, <<StrB>>}

\* The unique_state lists the client passes ([plates, owner]).
UniqueStates == {<<StrP, StrO>>, <<StrO>>}

RECURSIVE StrLess(_, _)
\* s < t for two str values.
StrLess(s, t) ==
    IF t = <<>> THEN FALSE
    ELSE IF s = <<>> THEN TRUE
    ELSE IF Head(s) # Head(t) THEN Head(s) < Head(t)
    ELSE StrLess(Tail(s), Tail(t))

RECURSIVE Insert(_, _)
Insert(x, sorted_list) ==
    IF sorted_list = <<>> THEN <<x>>
    ELSE IF StrLess(x, Head(sorted_list)) THEN <<x>> \o sorted_list
    ELSE <<Head(sorted_list)>> \o Insert(x, Tail(sorted_list))

RECURSIVE sorted(_)
\* sorted(state) of a list of str.
sorted(state) ==
    IF state = <<>> THEN <<>>
    ELSE Insert(state[Len(state)], sorted(SubSeq(state, 1, Len(state) - 1)))

RECURSIVE join(_, _)
\* sep.join(list)
join(sep, list) ==
    IF list = <<>> THEN <<>>
    ELSE IF Len(list) = 1 THEN list[1]
    ELSE list[1] \o sep \o join(sep, Tail(list))

get_key_unsorted(state) == join(<<95>>, state)

\* FlyweightFactory.get_key: "_".join(sorted(state))
get_key(state) == join(<<95>>, sorted(state))

\* json.dumps of a str without characters to escape, and of a list of them.
dumps_str(str) == <<34>> \o str \o <<34>>
dumps(list) ==
    <<91>> \o join(<<44, 32>>, [i \in 1 .. Len(list) |-> dumps_str(list[i])])
           \o <<93>>

\* d[key] = value on a dict.
SetItem(d, key, value) ==
    [k \in DOMAIN d \cup {key} |-> IF k = key THEN value ELSE d[k]]

RECURSIVE factory_init_rebinds(_, _, _)
factory_init_rebinds(reg, heap, initial_flyweights) ==
    IF initial_flyweights = <<>> THEN [reg |-> <<>>, heap |-> heap]
    ELSE LET r == factory_init_rebinds(reg, heap,
                    SubSeq(initial_flyweights, 1, Len(initial_flyweights) - 1))
             state == initial_flyweights[Len(initial_flyweights)]
             hp == Append(r.heap, state)
         IN  [reg |-> SetItem(r.reg, get_key(state), Len(hp)), heap |-> hp]

RECURSIVE factory_init(_, _, _)
\* FlyweightFactory.__init__: every state of the list is stored under its
\* key as a new Flyweight object.
factory_init(reg, heap, initial_flyweights) ==
    IF initial_flyweights = <<>> THEN [reg |-> reg, heap |-> heap]
    ELSE LET state == Head(initial_flyweights)
             hp == Append(heap, state)
         IN  factory_init(SetItem(reg, get_key(state), Len(hp)), hp,
                          Tail(initial_flyweights))

get_flyweight_resets(reg, heap, shared_state) ==
    LET key == get_key(shared_state) IN
    IF key \notin DOMAIN reg
    THEN [reg |-> [k \in {key} |-> Len(heap) + 1],
          heap |-> Append(heap, shared_state), ret |-> Len(heap) + 1]
    ELSE [reg |-> reg, heap |-> heap, ret |-> reg[key]]

\* FlyweightFactory.get_flyweight
get_flyweight(reg, heap, shared_state) ==
    LET key == get_key(shared_state) IN
    IF key \notin DOMAIN reg
    THEN [reg |-> SetItem(reg, key, Len(heap) + 1),
          heap |-> Append(heap, shared_state), ret |-> Len(heap) + 1]
    ELSE [reg |-> reg, heap |-> heap, ret |-> reg[key]]

operation_overwrites(heap, self, unique_state) ==
    [heap |-> [heap EXCEPT ![self] = unique_state],
     out |-> <<dumps(heap[self]), dumps(unique_state)>>]

\* Flyweight.operation: the two values formatted into the printed line.
operation(heap, self, unique_state) ==
    [heap |-> heap, out |-> <<dumps(heap[self]), dumps(unique_state)>>]

NoFlyOp == [op |-> "none", arg |-> <<>>]

InitFlyweight ==
    /\ flyweights = <<>>
    /\ fly_heap = <<>>
    /\ fly_factories = 0
    /\ fly_held = None
    /\ fly_op = NoFlyOp
    /\ fly_prev = NoFlyOp
    /\ fly_out = <<>>

\* Client statement FlyweightFactory(initial_flyweights).
FlyweightFactoryInit(initial_flyweights) ==
    /\ fly_factories < MaxFactories
    /\ Len(fly_heap) + Len(initial_flyweights) <= MaxObjects
    /\ LET r == factory_init(flyweights, fly_heap, initial_flyweights) IN
         /\ flyweights' = r.reg
         /\ fly_heap' = r.heap
    /\ fly_factories' = fly_factories + 1
    /\ fly_op' = [op |-> "FlyweightFactory", arg |-> <<>>]
    /\ fly_prev' = fly_op
    /\ UNCHANGED <<fly_held, fly_out>>
    /\ UNCHANGED <<chainVars, singVars, buildVars, moreVars>>

\* Client statement flyweight = factory.get_flyweight(shared_state) on one
\* of the factories constructed.
GetFlyweight(shared_state) ==
    /\ fly_factories > 0
    /\ LET r == get_flyweight(flyweights, fly_heap, shared_state) IN
         /\ Len(r.heap) <= MaxObjects
         /\ flyweights' = r.reg
         /\ fly_heap' = r.heap
         /\ fly_held' = r.ret
    /\ fly_op' = [op |-> "get_flyweight", arg |-> shared_state]
    /\ fly_prev' = fly_op
    /\ UNCHANGED <<fly_factories, fly_out>>
    /\ UNCHANGED <<chainVars, singVars, buildVars, moreVars>>

\* Client statement flyweight.operation(unique_state).
Operation(unique_state) ==
    /\ fly_held # None
    /\ LET r == operation(fly_heap, fly_held, unique_state) IN
         /\ fly_heap' = r.heap
         /\ fly_out' = r.out
    /\ fly_op' = [op |-> "operation", arg |-> unique_state]
    /\ fly_prev' = fly_op
    /\ UNCHANGED <<flyweights, fly_factories, fly_held>>
    /\ UNCHANGED <<chainVars, singVars, buildVars, moreVars>>

\* The lists of at most MaxInitial shared states.
InitialLists == UNION {[1 .. n -> SharedStates] : n \in 0 .. MaxInitial}

NextFlyweight ==
    \/ \E initial \in InitialLists : FlyweightFactoryInit(initial)
    \/ \E shared_state \in SharedStates : GetFlyweight(shared_state)
    \/ \E unique_state \in UniqueStates : Operation(unique_state)

---------------------------------------------------------------------------
(***************************************************************************)
(* Builder                                                                 *)
(***************************************************************************)

\* Number of parts added to products in a run.
MaxParts == 4

\* Number of Product1 objects created in a run.
MaxProducts == 3

\* Product1.add: self.parts.append(part)
add(heap, self, part) == [heap EXCEPT ![self] = Append(@, part)]

\* ConcreteBuilder1.reset: self._product = Product1()
reset(heap) == [heap |-> Append(heap, <<>>), product |-> Len(heap) + 1]

product_cleared_in_place(heap, cur) ==
    [heap |-> [heap EXCEPT ![cur] = <<>>], product |-> cur, ret |-> cur]

product_without_reset(heap, cur) ==
    [heap |-> heap, product |-> cur, ret |-> cur]

\* ConcreteBuilder1.product: the object held is returned after reset.
product(heap, cur) ==
    LET r == reset(heap) IN
    [heap |-> r.heap, product |-> r.product, ret |-> cur]

\* The part each produce_part_* call adds.
PartOf(call) ==
    CASE call = "a" -> "PartA1"
      [] call = "b" -> "PartB1"
      [] call = "c" -> "PartC1"

RECURSIVE produce_parts(_, _, _)
\* The produce_part_* calls of the list, made in order on the builder.
produce_parts(heap, cur, calls) ==
    IF calls = <<>> THEN heap
    ELSE produce_parts(add(heap, cur, PartOf(Head(calls))), cur, Tail(calls))

RECURSIVE TotalParts(_)
TotalParts(heap) ==
    IF heap = <<>> THEN 0 ELSE Len(Head(heap)) + TotalParts(Tail(heap))

\* The state after builder = ConcreteBuilder1() and director = Director().
InitBuilder ==
    /\ b_heap = <<<<>>>>
    /\ b_product = 1
    /\ b_fetched = None
    /\ b_calls = <<>>
    /\ b_op = "none"
    /\ d_builder = None
    /\ b_returned = <<>>

\* The statements of the list, made on the builder by statement op.
Produce(op, calls) ==
    /\ TotalParts(b_heap) + Len(calls) <= MaxParts
    /\ b_heap' = produce_parts(b_heap, b_product, calls)
    /\ b_calls' = b_calls \o calls
    /\ b_op' = op
    /\ UNCHANGED <<b_product, b_fetched, d_builder, b_returned>>
    /\ UNCHANGED <<chainVars, singVars, flyVars, moreVars>>

ProducePartA == Produce("produce_part_a", <<"a">>)

ProducePartB == Produce("produce_part_b", <<"b">>)

ProducePartC == Produce("produce_part_c", <<"c">>)

\* Client expression builder.product.
Product ==
    /\ Len(b_heap) < MaxProducts
    /\ LET r == product(b_heap, b_product) IN
         /\ b_heap' = r.heap
         /\ b_product' = r.product
         /\ b_fetched' = r.ret
         /\ b_returned' = Append(b_returned, r.ret)
    /\ b_calls' = <<>>
    /\ b_op' = "product"
    /\ UNCHANGED d_builder
    /\ UNCHANGED <<chainVars, singVars, flyVars, moreVars>>

\* Client statement director.builder = builder.
DirectorSetBuilder ==
    /\ d_builder = None
    /\ d_builder' = 1
    /\ b_op' = "director.builder"
    /\ UNCHANGED <<b_heap, b_product, b_fetched, b_calls, b_returned>>
    /\ UNCHANGED <<chainVars, singVars, flyVars, moreVars>>

\* Director.build_minimal_viable_product, once the director has a builder.
BuildMinimalViableProduct ==
    /\ d_builder # None
    /\ Produce("build_minimal_viable_product", <<"a">>)

BuildFullFeaturedProduct_misordered ==
    /\ d_builder # None
    /\ Produce("build_full_featured_product", <<"a", "c", "b">>)

\* Director.build_full_featured_product, once the director has a builder.
BuildFullFeaturedProduct ==
    /\ d_builder # None
    /\ Produce("build_full_featured_product", <<"a", "b", "c">>)

NextBuilder ==
    \/ ProducePartA
    \/ ProducePartB
    \/ ProducePartC
    \/ Product
    \/ DirectorSetBuilder
    \/ BuildMinimalViableProduct
    \/ BuildFullFeaturedProduct

---------------------------------------------------------------------------
(***************************************************************************)
(* Composite                                                               *)
(***************************************************************************)

\* Number of entries in all _children lists together that the client's own
\* add statements build up.
MaxChildren == 2

\* The objects of the main program: tree, branch1 and branch2 are
\* Composite(), leaf1..leaf3 the three Leaf() objects it adds, simple its
\* Leaf() outside the tree.
Composites == {"tree", "branch1", "branch2"}
Leaves == {"leaf1", "leaf2", "leaf3", "simple"}
Components == Composites \cup Leaves

\* The objects that the client's own statements name.
Operands == {"tree", "branch1", "simple"}

\* Component.is_composite / Composite.is_composite
is_composite(c) == c \in Composites

RECURSIVE join_str(_, _)
\* sep.join(results) for a list of str.
join_str(sep, results) ==
    IF results = <<>> THEN ""
    ELSE IF Len(results) = 1 THEN results[1]
    ELSE results[1] \o sep \o join_str(sep, Tail(results))

RECURSIVE composite_operation_reversed(_, _, _)
composite_operation_reversed(ch, self, depth) ==
    IF ~is_composite(self) THEN "Leaf"
    ELSE IF depth >= RecursionLimit THEN "RecursionError"
    ELSE LET n == Len(ch[self])
             results == [i \in 1 .. n |->
                 composite_operation_reversed(ch, ch[self][n + 1 - i], depth + 1)]
         IN  IF \E i \in 1 .. n : results[i] = "RecursionError"
             THEN "RecursionError"
             ELSE "Branch(" \o join_str("+", results) \o ")"

RECURSIVE composite_operation(_, _, _)
\* Leaf.operation and Composite.operation, entered at the given recursion
\* depth; a RecursionError raised below propagates to the caller.
composite_operation(ch, self, depth) ==
    IF ~is_composite(self) THEN "Leaf"
    ELSE IF depth >= RecursionLimit THEN "RecursionError"
    ELSE LET results == [i \in 1 .. Len(ch[self]) |->
                 composite_operation(ch, ch[self][i], depth + 1)]
         IN  IF \E i \in 1 .. Len(results) : results[i] = "RecursionError"
             THEN "RecursionError"
             ELSE "Branch(" \o join_str("+", results) \o ")"

\* Composite.add (Component.add, which does nothing, on a leaf).
composite_add(ch, par, self, component) ==
    IF is_composite(self)
    THEN [ch |-> [ch EXCEPT ![self] = Append(@, component)],
          par |-> [par EXCEPT ![component] = self]]
    ELSE [ch |-> ch, par |-> par]

\* The list without its element at position i.
RemoveAt(list, i) == SubSeq(list, 1, i - 1) \o SubSeq(list, i + 1, Len(list))

\* list.index(x) for an x that is in the list.
IndexOf(list, x) ==
    CHOOSE i \in 1 .. Len(list) :
        list[i] = x /\ \A j \in 1 .. (i - 1) : list[j] # x

Occurs(list, x) == \E i \in 1 .. Len(list) : list[i] = x

composite_remove_all(ch, par, self, component) ==
    IF ~is_composite(self) THEN [ch |-> ch, par |-> par, raised |-> FALSE]
    ELSE IF ~Occurs(ch[self], component)
    THEN [ch |-> ch, par |-> par, raised |-> TRUE]
    ELSE [ch |-> [ch EXCEPT ![self] = SelectSeq(@, LAMBDA x : x # component)],
          par |-> [par EXCEPT ![component] = "None"], raised |-> FALSE]

\* Composite.remove (Component.remove, which does nothing, on a leaf):
\* list.remove raises ValueError before the parent is touched when the
\* component is not in the list.
composite_remove(ch, par, self, component) ==
    IF ~is_composite(self) THEN [ch |-> ch, par |-> par, raised |-> FALSE]
    ELSE IF ~Occurs(ch[self], component)
    THEN [ch |-> ch, par |-> par, raised |-> TRUE]
    ELSE [ch |-> [ch EXCEPT ![self] = RemoveAt(@, IndexOf(@, component))],
          par |-> [par EXCEPT ![component] = "None"], raised |-> FALSE]

RECURSIVE TotalChildren(_, _)
TotalChildren(ch, cs) ==
    IF cs = {} THEN 0
    ELSE LET c == CHOOSE x \in cs : TRUE
         IN  Len(ch[c]) + TotalChildren(ch, cs \ {c})

NoCompOp == [op |-> "none", self |-> "None", component |-> "None",
             raised |-> FALSE]

\* No object has an attribute _parent before its parent is first set.
InitComposite ==
    /\ children = [c \in Composites |-> <<>>]
    /\ parent = [c \in Components |-> "unset"]
    /\ c_op = NoCompOp
    /\ c_result = NoResult

\* Client statement self.add(component).
CompositeAdd(self, component) ==
    /\ TotalChildren(children, Composites) < MaxChildren
    /\ LET r == composite_add(children, parent, self, component) IN
         /\ children' = r.ch
         /\ parent' = r.par
    /\ c_op' = [op |-> "add", self |-> self, component |-> component,
                raised |-> FALSE]
    /\ c_result' = NoResult
    /\ UNCHANGED notCompVars

\* Client statement self.remove(component).
CompositeRemove(self, component) ==
    /\ LET r == composite_remove(children, parent, self, component) IN
         /\ children' = r.ch
         /\ parent' = r.par
         /\ c_op' = [op |-> "remove", self |-> self, component |-> component,
                     raised |-> r.raised]
    /\ c_result' = NoResult
    /\ UNCHANGED notCompVars

\* Client expression self.operation().
CompositeOperation(self) ==
    /\ c_result' = composite_operation(children, self, 1)
    /\ c_op' = [op |-> "operation", self |-> self, component |-> "None",
                raised |-> c_result' = "RecursionError"]
    /\ UNCHANGED <<children, parent>>
    /\ UNCHANGED notCompVars

\* The main program's statements that build its tree out of new objects:
\* branch1.add(Leaf()); branch1.add(Leaf()); branch2.add(Leaf());
\* tree.add(branch1); tree.add(branch2).
MainBuildTree ==
    /\ children = [c \in Composites |-> <<>>]
    /\ parent = [c \in Components |-> "unset"]
    /\ LET r1 == composite_add(children, parent, "branch1", "leaf1")
           r2 == composite_add(r1.ch, r1.par, "branch1", "leaf2")
           r3 == composite_add(r2.ch, r2.par, "branch2", "leaf3")
           r4 == composite_add(r3.ch, r3.par, "tree", "branch1")
           r5 == composite_add(r4.ch, r4.par, "tree", "branch2")
       IN  /\ children' = r5.ch
           /\ parent' = r5.par
    /\ c_op' = [op |-> "main", self |-> "None", component |-> "None",
                raised |-> FALSE]
    /\ c_result' = NoResult
    /\ UNCHANGED notCompVars

NextComposite ==
    \/ \E self, component \in Operands : CompositeAdd(self, component)
    \/ \E self, component \in Operands : CompositeRemove(self, component)
    \/ \E self \in Operands : CompositeOperation(self)
    \/ MainBuildTree

---------------------------------------------------------------------------
(***************************************************************************)
(* Decorator                                                               *)
(***************************************************************************)

\* Number of decorator objects the client constructs.
MaxWrappers == 3

DecoratorClasses == {"Decorator", "ConcreteDecoratorA", "ConcreteDecoratorB"}

RECURSIVE decorator_operation_passthrough(_, _)
decorator_operation_passthrough(heap, self) ==
    IF heap[self].cls = "ConcreteComponent" THEN "Concrete Component"
    ELSE IF heap[self].cls = "ConcreteDecoratorB"
    THEN "ConcreteDecoratorB("
            \o decorator_operation_passthrough(heap, heap[self].component) \o ")"
    ELSE decorator_operation_passthrough(heap, heap[self].component)

RECURSIVE decorator_operation(_, _)
\* operation() of the object's class: ConcreteComponent, Decorator,
\* ConcreteDecoratorA, ConcreteDecoratorB.
decorator_operation(heap, self) ==
    CASE heap[self].cls = "ConcreteComponent" -> "Concrete Component"
      [] heap[self].cls = "Decorator" ->
            decorator_operation(heap, heap[self].component)
      [] heap[self].cls = "ConcreteDecoratorA" ->
            "ConcreteDecoratorA("
                \o decorator_operation(heap, heap[self].component) \o ")"
      [] heap[self].cls = "ConcreteDecoratorB" ->
            "ConcreteDecoratorB("
                \o decorator_operation(heap, heap[self].component) \o ")"

\* simple = ConcreteComponent()
InitDecorator ==
    /\ dec_heap = <<[cls |-> "ConcreteComponent", component |-> None]>>
    /\ dec_op = None
    /\ dec_result = NoResult

\* Client statement cls(component): Decorator.__init__ on a new object.
NewDecorator(cls, component) ==
    /\ Len(dec_heap) <= MaxWrappers
    /\ dec_heap' = Append(dec_heap, [cls |-> cls, component |-> component])
    /\ UNCHANGED <<dec_op, dec_result>>
    /\ UNCHANGED notDecVars

\* client_code(self): self.operation()
DecoratorOperation(self) ==
    /\ dec_op' = self
    /\ dec_result' = decorator_operation(dec_heap, self)
    /\ UNCHANGED dec_heap
    /\ UNCHANGED notDecVars

NextDecorator ==
    \/ \E cls \in DecoratorClasses, component \in 1 .. Len(dec_heap) :
          NewDecorator(cls, component)
    \/ \E self \in 1 .. Len(dec_heap) : DecoratorOperation(self)

---------------------------------------------------------------------------
(***************************************************************************)
(* Proxy                                                                   *)
(***************************************************************************)

\* Number of request() calls the client makes.
MaxRequests == 3

\* The classes of the subjects the client calls: RealSubject, Proxy, and a
\* subclass of Proxy that overrides check_access to return False
\* (Proxy.request calls self.check_access()).
SubjectClasses == {"RealSubject", "Proxy", "DenyingProxy"}

\* check_access of the proxy's class.
check_access(cls) == cls = "Proxy"

request_next_log_first(pc, access) ==
    CASE pc = "check_access" -> IF access THEN "log_access" ELSE "return"
      [] pc = "log_access" -> "real_subject.request"
      [] pc = "real_subject.request" -> "return"

request_next_ungated(pc, access) ==
    CASE pc = "check_access" -> "real_subject.request"
      [] pc = "real_subject.request" -> "log_access"
      [] pc = "log_access" -> "return"

\* The statement of Proxy.request that follows statement pc, access being
\* the value check_access returned.
request_next(pc, access) ==
    CASE pc = "check_access" ->
            IF access THEN "real_subject.request" ELSE "return"
      [] pc = "real_subject.request" -> "log_access"
      [] pc = "log_access" -> "return"

InitProxy ==
    /\ p_calls = <<>>
    /\ p_pc = "idle"

Current == Len(p_calls)

\* client_code(subject) with subject a proxy: Proxy.request is entered.
ProxyRequest(cls) ==
    /\ p_pc = "idle"
    /\ Len(p_calls) < MaxRequests
    /\ cls # "RealSubject"
    /\ p_calls' = Append(p_calls, [cls |-> cls, access |-> "unknown",
                                   events |-> <<>>, ended |-> "no"])
    /\ p_pc' = "check_access"
    /\ UNCHANGED notProxyVars

\* client_code(subject) with subject the real subject.
RealSubjectRequest ==
    /\ p_pc = "idle"
    /\ Len(p_calls) < MaxRequests
    /\ p_calls' = Append(p_calls, [cls |-> "RealSubject", access |-> "unknown",
                                   events |-> <<"RealSubject.request">>,
                                   ended |-> "returned"])
    /\ UNCHANGED p_pc
    /\ UNCHANGED notProxyVars

\* if self.check_access():
CheckAccess ==
    /\ p_pc = "check_access"
    /\ LET access == check_access(p_calls[Current].cls) IN
         /\ p_calls' = [p_calls EXCEPT
                ![Current].events = Append(@, "check_access"),
                ![Current].access = IF access THEN "True" ELSE "False"]
         /\ p_pc' = request_next(p_pc, access)
    /\ UNCHANGED notProxyVars

\* self._real_subject.request()
RealRequest ==
    /\ p_pc = "real_subject.request"
    /\ p_calls' = [p_calls EXCEPT
            ![Current].events = Append(@, "RealSubject.request")]
    /\ p_pc' = request_next(p_pc, p_calls[Current].access = "True")
    /\ UNCHANGED notProxyVars

\* self.log_access()
LogAccess ==
    /\ p_pc = "log_access"
    /\ p_calls' = [p_calls EXCEPT ![Current].events = Append(@, "log_access")]
    /\ p_pc' = request_next(p_pc, p_calls[Current].access = "True")
    /\ UNCHANGED notProxyVars

\* Proxy.request returns None to the client.
ProxyReturn ==
    /\ p_pc = "return"
    /\ p_calls' = [p_calls EXCEPT ![Current].ended = "returned"]
    /\ p_pc' = "idle"
    /\ UNCHANGED notProxyVars

NextProxy ==
    \/ \E cls \in SubjectClasses : ProxyRequest(cls)
    \/ RealSubjectRequest
    \/ CheckAccess
    \/ RealRequest
    \/ LogAccess
    \/ ProxyReturn

---------------------------------------------------------------------------
(***************************************************************************)
(* Facade                                                                  *)
(***************************************************************************)

\* Number of subsystem objects the client creates itself.
MaxSubsystems == 2

\* A module variable that no statement has assigned yet.
Undefined == -1

\* The subsystem objects of a class.
ObjectsOf(objects, cls) == {id \in 1 .. Len(objects) : objects[id] = cls}

\* SubSystem1.operation1, SubSystem1.operation_n, SubSystem2.operation1,
\* SubSystem2.operation_z
subsystem_method(cls, method) ==
    CASE cls = "SubSystem1" /\ method = "operation1" -> "Subsystem1: Ready!"
      [] cls = "SubSystem1" /\ method = "operation_n" -> "Subsystem1: Go!"
      [] cls = "SubSystem2" /\ method = "operation1" -> "Subsystem2: Get ready!"
      [] cls = "SubSystem2" /\ method = "operation_z" -> "Subsystem2: Fire!"

\* Facade.__init__(self, subststem1, subststem2): the body reads the names
\* subsystem1 and subsystem2, which are not its parameters but variables of
\* the module; reading an unassigned one raises NameError, and the object
\* under construction and what it has created so far are dropped.
facade_init(objects, globals, subststem1, subststem2) ==
    IF globals.subsystem1 = Undefined
    THEN [raised |-> "NameError", objects |-> objects]
    ELSE LET new1 == globals.subsystem1 = None
             objects1 == IF new1 THEN Append(objects, "SubSystem1") ELSE objects
             s1 == IF new1 THEN Len(objects1) ELSE globals.subsystem1
         IN  IF globals.subsystem2 = Undefined
             THEN [raised |-> "NameError", objects |-> objects]
             ELSE LET new2 == globals.subsystem2 = None
                      objects2 == IF new2 THEN Append(objects1, "SubSystem2")
                                  ELSE objects1
                      s2 == IF new2 THEN Len(objects2) ELSE globals.subsystem2
                  IN  [raised |-> "None", objects |-> objects2,
                       facade |-> [subststem1 |-> subststem1,
                                   subststem2 |-> subststem2,
                                   _subsystem1 |-> s1, _subsystem2 |-> s2,
                                   created |-> (IF new1 THEN {s1} ELSE {})
                                          \cup (IF new2 THEN {s2} ELSE {})]]

facade_operation_swapped(objects, self) ==
    LET call(id, method) ==
            [object |-> id, method |-> method,
             result |-> subsystem_method(objects[id], method)]
        calls == <<call(self._subsystem2, "operation1"),
                   call(self._subsystem1, "operation1"),
                   call(self._subsystem1, "operation_n"),
                   call(self._subsystem2, "operation_z")>>
    IN  [calls |-> calls,
         result |-> join_str("\n",
            <<"Facade init:", calls[1].result, calls[2].result,
              "Facade orders subsystems to perform the action:",
              calls[3].result, calls[4].result>>)]

\* Facade.operation: the subsystem calls in the order of the statements,
\* and the joined results.
facade_operation(objects, self) ==
    LET call(id, method) ==
            [object |-> id, method |-> method,
             result |-> subsystem_method(objects[id], method)]
        calls == <<call(self._subsystem1, "operation1"),
                   call(self._subsystem2, "operation1"),
                   call(self._subsystem1, "operation_n"),
                   call(self._subsystem2, "operation_z")>>
    IN  [calls |-> calls,
         result |-> join_str("\n",
            <<"Facade init:", calls[1].result, calls[2].result,
              "Facade orders subsystems to perform the action:",
              calls[3].result, calls[4].result>>)]

NoFacadeOp == [op |-> "none", facade |-> None, raised |-> "None"]

\* Nothing of the module's main block has run.
InitFacade ==
    /\ f_objects = <<>>
    /\ f_globals = [subsystem1 |-> Undefined, subsystem2 |-> Undefined]
    /\ f_facades = <<>>
    /\ f_op = NoFacadeOp
    /\ f_calls = <<>>
    /\ f_result = NoResult

\* Client expression SubSystem1() or SubSystem2().
NewSubSystem(cls) ==
    /\ Len(f_objects) < MaxSubsystems
    /\ f_objects' = Append(f_objects, cls)
    /\ f_op' = [op |-> cls, facade |-> None, raised |-> "None"]
    /\ f_calls' = <<>>
    /\ f_result' = NoResult
    /\ UNCHANGED <<f_globals, f_facades>>
    /\ UNCHANGED notFacVars

\* Module statement subsystem1 = value or subsystem2 = value, the value
\* being None or an object of the variable's annotated class.
AssignGlobal(name, value) ==
    /\ f_globals[name] # value
    /\ f_globals' = [f_globals EXCEPT ![name] = value]
    /\ f_op' = [op |-> "assign", facade |-> None, raised |-> "None"]
    /\ f_calls' = <<>>
    /\ f_result' = NoResult
    /\ UNCHANGED <<f_objects, f_facades>>
    /\ UNCHANGED notFacVars

\* Client expression Facade(subststem1, subststem2); the client constructs
\* one facade, as the main block does.
NewFacade(subststem1, subststem2) ==
    /\ f_facades = <<>>
    /\ LET r == facade_init(f_objects, f_globals, subststem1, subststem2) IN
         /\ f_objects' = r.objects
         /\ IF r.raised = "None"
            THEN /\ f_facades' = Append(f_facades, r.facade)
                 /\ f_op' = [op |-> "Facade", facade |-> Len(f_facades'),
                             raised |-> "None"]
            ELSE /\ f_facades' = f_facades
                 /\ f_op' = [op |-> "Facade", facade |-> None,
                             raised |-> r.raised]
    /\ f_calls' = <<>>
    /\ f_result' = NoResult
    /\ UNCHANGED f_globals
    /\ UNCHANGED notFacVars

\* Client expression Facade(): __init__ has no default arguments.
NewFacadeWithoutArguments ==
    /\ f_op' = [op |-> "Facade()", facade |-> None, raised |-> "TypeError"]
    /\ f_calls' = <<>>
    /\ f_result' = NoResult
    /\ UNCHANGED <<f_objects, f_globals, f_facades>>
    /\ UNCHANGED notFacVars

\* client_code(facade): facade.operation()
FacadeOperation(self) ==
    /\ LET r == facade_operation(f_objects, f_facades[self]) IN
         /\ f_calls' = r.calls
         /\ f_result' = r.result
    /\ f_op' = [op |-> "operation", facade |-> self, raised |-> "None"]
    /\ UNCHANGED <<f_objects, f_globals, f_facades>>
    /\ UNCHANGED notFacVars

NextFacade ==
    \/ \E cls \in {"SubSystem1", "SubSystem2"} : NewSubSystem(cls)
    \/ \E value \in {None} \cup ObjectsOf(f_objects, "SubSystem1") :
          AssignGlobal("subsystem1", value)
    \/ \E value \in {None} \cup ObjectsOf(f_objects, "SubSystem2") :
          AssignGlobal("subsystem2", value)
    \/ \E subststem1 \in {None} \cup ObjectsOf(f_objects, "SubSystem1"),
          subststem2 \in {None} \cup ObjectsOf(f_objects, "SubSystem2") :
          NewFacade(subststem1, subststem2)
    \/ NewFacadeWithoutArguments
    \/ \E self \in 1 .. Len(f_facades) : FacadeOperation(self)

---------------------------------------------------------------------------
(***************************************************************************)
(* Abstract Factory                                                        *)
(***************************************************************************)

\* Number of products the client has the factories create.
MaxCreated == 4

Factories == {"ConcreteFactory1", "ConcreteFactory2"}

\* ConcreteFactory1.create_product_a, ConcreteFactory2.create_product_a
create_product_a(factory) ==
    IF factory = "ConcreteFactory1" THEN "ConcreteProductA1"
    ELSE "ConcreteProductA2"

create_product_b_of_other_family(factory) ==
    IF factory = "ConcreteFactory1" THEN "ConcreteProductB2"
    ELSE "ConcreteProductB1"

\* ConcreteFactory1.create_product_b, ConcreteFactory2.create_product_b
create_product_b(factory) ==
    IF factory = "ConcreteFactory1" THEN "ConcreteProductB1"
    ELSE "ConcreteProductB2"

\* ConcreteProductA1.useful_function_a, ConcreteProductA2.useful_function_a
useful_function_a(cls) ==
    IF cls = "ConcreteProductA1" THEN "Result of product A1"
    ELSE "Result of product A2"

\* ConcreteProductB1.another_useful_function_b,
\* ConcreteProductB2.another_useful_function_b
another_useful_function_b(cls, collaborator) ==
    IF cls = "ConcreteProductB1"
    THEN "The result of B1 collaborating with the ("
            \o useful_function_a(collaborator) \o ")"
    ELSE "The result of B2 collaborating with the ("
            \o useful_function_a(collaborator) \o ")"

IsProductA(cls) == cls \in {"ConcreteProductA1", "ConcreteProductA2"}

InitAbstractFactory ==
    /\ af_products = <<>>
    /\ af_result = NoResult

\* factory.create_product_a()
CreateProductA(factory) ==
    /\ Len(af_products) < MaxCreated
    /\ af_products' = Append(af_products,
            [cls |-> create_product_a(factory), factory |-> factory])
    /\ af_result' = NoResult
    /\ UNCHANGED notAfVars

\* factory.create_product_b()
CreateProductB(factory) ==
    /\ Len(af_products) < MaxCreated
    /\ af_products' = Append(af_products,
            [cls |-> create_product_b(factory), factory |-> factory])
    /\ af_result' = NoResult
    /\ UNCHANGED notAfVars

\* product_b.another_useful_function_b(product_a)
AnotherUsefulFunctionB(product_b, product_a) ==
    /\ ~IsProductA(af_products[product_b].cls)
    /\ IsProductA(af_products[product_a].cls)
    /\ af_result' = another_useful_function_b(af_products[product_b].cls,
                                              af_products[product_a].cls)
    /\ UNCHANGED af_products
    /\ UNCHANGED notAfVars

NextAbstractFactory ==
    \/ \E factory \in Factories : CreateProductA(factory)
    \/ \E factory \in Factories : CreateProductB(factory)
    \/ \E product_b, product_a \in 1 .. Len(af_products) :
          AnotherUsefulFunctionB(product_b, product_a)

---------------------------------------------------------------------------
(***************************************************************************)
(* Bridge                                                                  *)
(***************************************************************************)

\* Number of abstraction objects the client creates.
MaxAbstractions == 1

\* Number of times the client replaces an abstraction's implementation.
MaxReplacements == 3

\* The class of the implementation objects of the main block, the first
\* and the second.
br_impls == <<"ConcreteImplementationA", "ConcreteImplementationB">>

AbstractionClasses == {"Abstraction", "ExtendedAbstraction"}
ImplementationClasses == {"ConcreteImplementationA", "ConcreteImplementationB"}

\* ConcreteImplementationA.operation_implementation,
\* ConcreteImplementationB.operation_implementation
operation_implementation(cls) ==
    IF cls = "ConcreteImplementationA"
    THEN "ConcreteImplementationA: Here's the result on the platform A."
    ELSE "ConcreteImplementationB: Here's the result on the platform B."

\* Abstraction.operation, ExtendedAbstraction.operation: the object
\* delegated to and the returned string.
bridge_operation(impls, self) ==
    [called |-> self.implementation,
     result |-> (IF self.cls = "Abstraction"
                 THEN "Abstraction: Base operation with:\n"
                 ELSE "ExtendedAbstraction: Extended operation with:\n")
                \o operation_implementation(impls[self.implementation])]

set_implementation_once(self, implementation) == self

\* The assignment self.implementation = implementation (Abstraction.__init__
\* makes it, and any client can: the attribute is public).
set_implementation(self, implementation) ==
    [self EXCEPT !.implementation = implementation]

InitBridge ==
    /\ br_abstractions = <<>>
    /\ br_assigned = <<>>
    /\ br_op = None
    /\ br_called = None
    /\ br_result = NoResult

BridgeCallOver ==
    /\ br_op' = None
    /\ br_called' = None
    /\ br_result' = NoResult

\* Client expression Abstraction(implementation) or
\* ExtendedAbstraction(implementation).
NewAbstraction(cls, implementation) ==
    /\ Len(br_abstractions) < MaxAbstractions
    /\ br_abstractions' = Append(br_abstractions,
            [cls |-> cls, implementation |-> implementation])
    /\ br_assigned' = Append(br_assigned, <<implementation>>)
    /\ BridgeCallOver
    /\ UNCHANGED notBridgeVars

\* Client statement abstraction.implementation = implementation.
SetImplementation(abstraction, implementation) ==
    /\ Len(br_assigned[abstraction]) <= MaxReplacements
    /\ br_abstractions' = [br_abstractions EXCEPT ![abstraction] =
            set_implementation(@, implementation)]
    /\ br_assigned' = [br_assigned EXCEPT ![abstraction] =
            Append(@, implementation)]
    /\ BridgeCallOver
    /\ UNCHANGED notBridgeVars

\* client_code(abstraction): abstraction.operation()
BridgeOperation(abstraction) ==
    /\ LET r == bridge_operation(br_impls, br_abstractions[abstraction]) IN
         /\ br_called' = r.called
         /\ br_result' = r.result
    /\ br_op' = abstraction
    /\ UNCHANGED <<br_abstractions, br_assigned>>
    /\ UNCHANGED notBridgeVars

NextBridge ==
    \/ \E cls \in AbstractionClasses, implementation \in 1 .. Len(br_impls) :
          NewAbstraction(cls, implementation)
    \/ \E abstraction \in 1 .. Len(br_abstractions),
          implementation \in 1 .. Len(br_impls) :
          SetImplementation(abstraction, implementation)
    \/ \E abstraction \in 1 .. Len(br_abstractions) :
          BridgeOperation(abstraction)

---------------------------------------------------------------------------
(***************************************************************************)
(* Flyweight: the factory objects                                          *)
(*                                                                         *)
(* The client of this specification calls the methods of several factory   *)
(* objects; its statements are recorded in fly_call (fly_op and fly_prev   *)
(* record the statements of the client of SpecFlyweight).                  *)
(***************************************************************************)

\* The variables of the examples other than the flyweight.
notFlyVars ==
    <<chainVars, singVars, buildVars, compVars, decVars, proxyVars, facVars,
      afVars, bridgeVars>>

\* self._flyweights in a method of factory object self: no statement
\* assigns the attribute on an object, so it is the dict of the class.
self_flyweights(reg, self) == reg

\* FlyweightFactory.__init__ on the new factory object self.
factory_init_on(reg, heap, self, initial_flyweights) ==
    factory_init(self_flyweights(reg, self), heap, initial_flyweights)

\* FlyweightFactory.list_flyweights: the count it prints.
list_flyweights(reg, self) == Cardinality(DOMAIN self_flyweights(reg, self))

NoFlyCall == [op |-> "none", self |-> None, arg |-> <<>>]

InitFlyweightFactories ==
    /\ fly_call = NoFlyCall
    /\ fly_by = <<>>
    /\ fly_count = None

\* Client statement FlyweightFactory(initial_flyweights): the new object is
\* factory number fly_factories + 1.
NewFactory(initial_flyweights) ==
    /\ fly_factories < MaxFactories
    /\ Len(fly_heap) + Len(initial_flyweights) <= MaxObjects
    /\ fly_factories' = fly_factories + 1
    /\ LET r == factory_init_on(flyweights, fly_heap, fly_factories',
                                initial_flyweights) IN
         /\ flyweights' = r.reg
         /\ fly_heap' = r.heap
    /\ fly_call' = [op |-> "FlyweightFactory", self |-> fly_factories',
                    arg |-> <<>>]
    /\ fly_by' = [k \in DOMAIN flyweights' |->
            IF \E i \in 1 .. Len(initial_flyweights) :
                    get_key(initial_flyweights[i]) = k
            THEN fly_factories' ELSE fly_by[k]]
    /\ fly_count' = None
    /\ UNCHANGED <<fly_held, fly_op, fly_prev, fly_out>>
    /\ UNCHANGED notFlyVars

\* Client statement flyweight = self.get_flyweight(shared_state) on
\* factory object self.
GetFlyweightOn(self, shared_state) ==
    /\ LET r == get_flyweight(self_flyweights(flyweights, self), fly_heap,
                              shared_state) IN
         /\ Len(r.heap) <= MaxObjects
         /\ flyweights' = r.reg
         /\ fly_heap' = r.heap
         /\ fly_held' = r.ret
    /\ fly_call' = [op |-> "get_flyweight", self |-> self,
                    arg |-> shared_state]
    /\ fly_by' = [k \in DOMAIN flyweights' |->
            IF k \in DOMAIN flyweights THEN fly_by[k] ELSE self]
    /\ fly_count' = None
    /\ UNCHANGED <<fly_factories, fly_op, fly_prev, fly_out>>
    /\ UNCHANGED notFlyVars

\* Client statement self.list_flyweights() on factory object self.
ListFlyweights(self) ==
    /\ fly_count' = list_flyweights(flyweights, self)
    /\ fly_call' = [op |-> "list_flyweights", self |-> self, arg |-> <<>>]
    /\ UNCHANGED <<flyweights, fly_heap, fly_factories, fly_held, fly_by>>
    /\ UNCHANGED <<fly_op, fly_prev, fly_out>>
    /\ UNCHANGED notFlyVars

NextFlyweightFactories ==
    \/ \E initial \in InitialLists : NewFactory(initial)
    \/ \E self \in 1 .. fly_factories, shared_state \in SharedStates :
          GetFlyweightOn(self, shared_state)
    \/ \E self \in 1 .. fly_factories : ListFlyweights(self)

---------------------------------------------------------------------------

Init ==
    /\ InitChain /\ InitSingleton /\ InitFlyweight /\ InitBuilder
    /\ InitComposite
    /\ InitDecorator
    /\ InitProxy
    /\ InitFacade
    /\ InitAbstractFactory
    /\ InitBridge
    /\ InitFlyweightFactories

SpecChain == Init /\ [][NextChain]_vars

\* The interpreter keeps executing a call that has been started.
SpecChainFair == SpecChain /\ WF_vars(HandleStep)

\* One thread issues the creation requests.
SpecSingleton == Init /\ [][NextSingleton]_vars

\* Several threads issue creation requests; a thread switch may happen
\* between any two statements of SingletonMeta.__call__.
SpecSingletonMT == Init /\ [][NextSingletonMT]_vars

SpecFlyweight == Init /\ [][NextFlyweight]_vars

SpecBuilder == Init /\ [][NextBuilder]_vars

SpecComposite == Init /\ [][NextComposite]_vars

SpecDecorator == Init /\ [][NextDecorator]_vars

SpecProxy == Init /\ [][NextProxy]_vars

SpecFacade == Init /\ [][NextFacade]_vars

SpecAbstractFactory == Init /\ [][NextAbstractFactory]_vars

SpecBridge == Init /\ [][NextBridge]_vars

SpecFlyweightFactories == Init /\ [][NextFlyweightFactories]_vars

---------------------------------------------------------------------------
(***************************************************************************)
(* Chain of Responsibility: properties                                     *)
(***************************************************************************)

RECURSIVE ChainFrom(_, _, _)
\* The handlers met by following at most fuel successor links from h.
ChainFrom(nh, h, fuel) ==
    IF h = None \/ fuel = 0 THEN <<>>
    ELSE <<h>> \o ChainFrom(nh, nh[h], fuel - 1)

\* The successor links from h end after finitely many handlers.
AcyclicFrom(nh, h) == Len(ChainFrom(nh, h, NumHandlers + 1)) <= NumHandlers

\* Position in chain of the first handler that recognizes the request, or 0.
FirstMatch(chain, request) ==
    IF \E i \in 1 .. Len(chain) : Recognizes(chain[i], request)
    THEN CHOOSE i \in 1 .. Len(chain) :
            /\ Recognizes(chain[i], request)
            /\ \A j \in 1 .. (i - 1) : ~Recognizes(chain[j], request)
    ELSE 0

CallEnded == h_state \in {"returned", "raised"}

\* C1: on an acyclic chain, handle(x) started at h returns the reply of the
\* first handler at or after h that recognizes x, or None when there is
\* none, and consults exactly the handlers from h up to that handler (so no
\* handler that precedes h).
C1_FirstMatchingHandler ==
    (CallEnded /\ AcyclicFrom(next_handler, h_start)) =>
        LET chain == ChainFrom(next_handler, h_start, NumHandlers)
            i == FirstMatch(chain, h_request)
        IN  /\ h_state = "returned"
            /\ h_result = IF i = 0 THEN NoResult ELSE Reply(chain[i], h_request)
            /\ h_consulted =
                 {chain[j] : j \in 1 .. (IF i = 0 THEN Len(chain) ELSE i)}

\* A call started in the middle of an acyclic chain was answered by a later
\* handler of the chain.
C1_Witness ==
    /\ h_state = "returned"
    /\ AcyclicFrom(next_handler, h_start)
    /\ \E p \in Handlers : next_handler[p] = h_start
    /\ h_result # NoResult
    /\ h_cur # h_start

\* C2 as stated: after any sequence of set_next calls, a handle call that
\* has ended has returned a handler's reply or None.
C2_EveryCallReturns == CallEnded => h_state = "returned"

\* Some handler met by following the successor links from h recognizes the
\* request.
RecognizedFrom(nh, h, request) ==
    FirstMatch(ChainFrom(nh, h, NumHandlers), request) # 0

\* C2 amended: a handle call eventually returns a handler's reply or None,
\* unless the successor links from the node form a cycle and no handler on
\* them recognizes the request.
C2_CallReturnsUnlessUnrecognizedCycle ==
    (/\ h_state = "running"
     /\ \/ AcyclicFrom(next_handler, h_start)
        \/ RecognizedFrom(next_handler, h_start, h_request))
    ~> (h_state = "returned")

\* A call went through a whole chain of all the handlers and returned None.
C2_Witness ==
    /\ h_state = "returned"
    /\ h_result = NoResult
    /\ AcyclicFrom(next_handler, h_start)
    /\ h_consulted = Handlers

\* C3: a.set_next(b) makes b the successor of a, returns b and leaves the
\* successor of every other handler unchanged; a.set_next(b).set_next(c)
\* with a # b makes b the successor of a and c the successor of b, returns
\* c and leaves the other successors unchanged.
C3_SetNextLinksAndReturns ==
    [][LET a == chain_op'.a
           b == chain_op'.b
           c == chain_op'.c
       IN  /\ chain_op'.op = "set_next" =>
                /\ next_handler'[a] = b
                /\ set_next_ret' = b
                /\ \A h \in Handlers \ {a} : next_handler'[h] = next_handler[h]
           /\ (chain_op'.op = "set_next_chained" /\ a # b) =>
                /\ next_handler'[a] = b
                /\ next_handler'[b] = c
                /\ set_next_ret' = c
                /\ \A h \in Handlers \ {a, b} :
                      next_handler'[h] = next_handler[h]
      ]_vars

\* monkey.set_next(squirrel).set_next(dog) has built monkey -> squirrel -> dog.
C3_Witness ==
    /\ chain_op.op = "set_next_chained"
    /\ chain_op.a # chain_op.b /\ chain_op.b # chain_op.c /\ chain_op.a # chain_op.c
    /\ ChainFrom(next_handler, chain_op.a, NumHandlers)
         = <<chain_op.a, chain_op.b, chain_op.c>>
    /\ set_next_ret = chain_op.c

\* The successor links from h run into a cycle and no handler on them
\* recognizes the request.
UnrecognizedCycle(nh, h, request) ==
    /\ h # None
    /\ ~AcyclicFrom(nh, h)
    /\ ~RecognizedFrom(nh, h, request)

\* C21 as stated: a handle call for a request that no handler recognizes
\* never ends on a cyclic chain (the forwarding is unbounded), and a call
\* for a request some reachable handler recognizes returns that handler's
\* reply.
C21_UnrecognizedCallOnCycleNeverEnds ==
    /\ UnrecognizedCycle(next_handler, h_start, h_request) => ~CallEnded
    /\ (CallEnded /\ ~AcyclicFrom(next_handler, h_start)
            /\ RecognizedFrom(next_handler, h_start, h_request)) =>
          /\ h_state = "returned"
          /\ h_result # NoResult

\* C21 amended: set_next stores every link, also one that closes a cycle
\* (a.set_next(a) included), and returns its argument; on a cyclic chain a
\* handle call for a request that no handler recognizes is forwarded until
\* the interpreter's recursion limit and then ends by raising
\* RecursionError, so it returns nothing; a call for a request that some
\* handler reachable from the entry point recognizes returns the reply of
\* the first such handler.
C21_CycleAcceptedThenRecursionError ==
    /\ [][chain_op'.op = "set_next" =>
             /\ next_handler'[chain_op'.a] = chain_op'.b
             /\ set_next_ret' = chain_op'.b]_vars
    /\ [](UnrecognizedCycle(next_handler, h_start, h_request) =>
             /\ h_state # "returned"
             /\ h_depth <= RecursionLimit
             /\ h_state = "raised" =>
                   (h_result = "RecursionError" /\ h_depth = RecursionLimit))
    /\ [](/\ CallEnded
          /\ ~AcyclicFrom(next_handler, h_start)
          /\ RecognizedFrom(next_handler, h_start, h_request)
          => LET chain == ChainFrom(next_handler, h_start, NumHandlers)
             IN  /\ h_state = "returned"
                 /\ h_result =
                      Reply(chain[FirstMatch(chain, h_request)], h_request))
    /\ (h_state = "running"
            /\ UnrecognizedCycle(next_handler, h_start, h_request))
          ~> (h_state = "raised")

\* A handler linked to itself was asked for a request it does not
\* recognize: the call ended in RecursionError.
C21_Witness ==
    /\ h_state = "raised"
    /\ h_result = "RecursionError"
    /\ next_handler[h_start] = h_start
    /\ UnrecognizedCycle(next_handler, h_start, h_request)


---------------------------------------------------------------------------
(***************************************************************************)
(* Singleton: properties                                                   *)
(***************************************************************************)

\* The requests for cls that have ended.
EndedRequests(cls) == {i \in 1 .. Len(s_log) : s_log[i].cls = cls}

\* The instances the requests for cls have returned.
ReturnedInstances(cls) ==
    {s_log[i].ret : i \in {j \in EndedRequests(cls) : s_log[j].ret # None}}

\* The objects of class cls that have been constructed.
Constructed(cls) == {id \in 1 .. Len(s_objects) : s_objects[id] = cls}

\* C4 as stated: in a single thread every creation request for a class,
\* whatever its arguments, returns the one instance of the class, which
\* was constructed by the first request.
C4_EveryRequestReturnsTheInstance ==
    \A cls \in Classes :
        EndedRequests(cls) # {} =>
            /\ \A i \in EndedRequests(cls) : s_log[i].ret # None
            /\ Cardinality(ReturnedInstances(cls)) = 1
            /\ Cardinality(Constructed(cls)) = 1

\* C4 amended: in a single thread every creation request that returns
\* returns the one instance of the class and exactly one construction of
\* the class completes; a request raises TypeError instead of returning
\* exactly when it passes arguments while no instance is cached.
C4_ReturningRequestsShareTheInstance ==
    \A cls \in Classes :
        /\ Cardinality(Constructed(cls)) <= 1
        /\ ReturnedInstances(cls) \subseteq Constructed(cls)
        /\ \A i \in EndedRequests(cls) :
              s_log[i].ret = None <=>
                 /\ s_log[i].args # <<>>
                 /\ \A j \in EndedRequests(cls) : j < i => s_log[j].ret = None

\* Three requests for one class have returned, with and without arguments.
C4_Witness ==
    \E cls \in Classes :
        /\ Cardinality({i \in EndedRequests(cls) : s_log[i].ret # None}) >= 3
        /\ \E i, j \in EndedRequests(cls) :
              /\ s_log[i].args = <<>> /\ s_log[j].args # <<>>
              /\ s_log[i].ret # None /\ s_log[j].ret # None

\* C5: with concurrent creation requests, all requests for a class observe
\* the same instance and at most one instance of the class is constructed.
C5_ConcurrentRequestsShareTheInstance ==
    \A cls \in Classes :
        /\ Cardinality(ReturnedInstances(cls)) <= 1
        /\ Cardinality(Constructed(cls)) <= 1


---------------------------------------------------------------------------
(***************************************************************************)
(* Flyweight: properties                                                   *)
(***************************************************************************)

\* The two lists hold the same fields, each the same number of times.
IsPermutation(s, t) ==
    /\ Len(s) = Len(t)
    /\ \A x \in {s[i] : i \in 1 .. Len(s)} :
          Cardinality({i \in 1 .. Len(s) : s[i] = x})
             = Cardinality({i \in 1 .. Len(t) : t[i] = x})

\* C6: a get_flyweight call that follows a get_flyweight call whose
\* shared_state was equal or a permutation of the same fields returns the
\* same flyweight object and changes neither the registry nor any object.
C6_SameFieldsSameFlyweight ==
    [][(/\ fly_op.op = "get_flyweight"
        /\ fly_op'.op = "get_flyweight"
        /\ IsPermutation(fly_op.arg, fly_op'.arg)) =>
            /\ fly_held' = fly_held
            /\ flyweights' = flyweights
            /\ fly_heap' = fly_heap
      ]_vars

\* get_flyweight(["b", "a"]) right after get_flyweight(["a", "b"]) returned
\* the object that holds ["a", "b"].
C6_Witness ==
    /\ fly_prev.op = "get_flyweight"
    /\ fly_op.op = "get_flyweight"
    /\ fly_op.arg # fly_prev.arg
    /\ IsPermutation(fly_prev.arg, fly_op.arg)
    /\ fly_heap[fly_held] = fly_prev.arg

\* C7: a get_flyweight call whose key is not in the registry adds exactly
\* one key and leaves every existing entry and object unchanged; a call
\* whose key is in the registry leaves the size of the registry unchanged.
C7_MissAddsOneHitAddsNone ==
    [][fly_op'.op = "get_flyweight" =>
         LET key == get_key(fly_op'.arg) IN
         IF key \notin DOMAIN flyweights
         THEN /\ Cardinality(DOMAIN flyweights')
                   = Cardinality(DOMAIN flyweights) + 1
              /\ \A k \in DOMAIN flyweights :
                    /\ k \in DOMAIN flyweights'
                    /\ flyweights'[k] = flyweights[k]
                    /\ fly_heap'[flyweights'[k]] = fly_heap[flyweights[k]]
         ELSE Cardinality(DOMAIN flyweights')
                   = Cardinality(DOMAIN flyweights)
      ]_vars

\* A get_flyweight call has added a second key to the registry.
C7_Witness ==
    /\ fly_op.op = "get_flyweight"
    /\ Cardinality(DOMAIN flyweights) = 2
    /\ flyweights[get_key(fly_op.arg)] = Len(fly_heap)
    /\ fly_held = Len(fly_heap)

\* C8: a flyweight registered under a key stays the object registered
\* under that key (so every later get_flyweight for the key returns it),
\* whatever factory constructions and get_flyweight calls follow.
C8_RegisteredFlyweightStays ==
    [][\A k \in DOMAIN flyweights :
          /\ k \in DOMAIN flyweights'
          /\ flyweights'[k] = flyweights[k]
      ]_vars

\* C9: Flyweight.operation changes neither the shared state of any
\* flyweight object nor the registry.
C9_OperationReadsOnly ==
    [][fly_op'.op = "operation" =>
          /\ fly_heap' = fly_heap
          /\ flyweights' = flyweights
      ]_vars

\* operation was called twice in a row, with different unique states, on a
\* registered flyweight.
C9_Witness ==
    /\ fly_prev.op = "operation"
    /\ fly_op.op = "operation"
    /\ fly_prev.arg # fly_op.arg
    /\ fly_out = <<dumps(fly_heap[fly_held]), dumps(fly_op.arg)>>
    /\ \E k \in DOMAIN flyweights : flyweights[k] = fly_held

\* C23: get_flyweight(s) returns a flyweight whose shared state has the
\* fields of s (is a permutation of s), and two shared states that are not
\* permutations of each other have different keys, also when a field
\* contains "_": a shared state whose key is registered has the fields of
\* the flyweight registered under it.
C23_KeyKeepsTheFields ==
    /\ fly_op.op = "get_flyweight" =>
          IsPermutation(fly_heap[fly_held], fly_op.arg)
    /\ \A s \in SharedStates :
          get_key(s) \in DOMAIN flyweights =>
              IsPermutation(fly_heap[flyweights[get_key(s)]], s)

\* C24: all factory objects use one registry: get_flyweight on any factory
\* with a key stored through any factory (by its constructor or by
\* get_flyweight) finds the entry - it returns the object registered under
\* the key and creates nothing; list_flyweights on any factory counts
\* every key; constructing a factory keeps every key stored before.
C24_FactoriesShareTheRegistry ==
    [][/\ fly_call'.op = "get_flyweight" =>
            LET key == get_key(fly_call'.arg) IN
            key \in DOMAIN flyweights =>
                /\ fly_held' = flyweights[key]
                /\ flyweights' = flyweights
                /\ fly_heap' = fly_heap
       /\ fly_call'.op = "list_flyweights" =>
            fly_count' = Cardinality(DOMAIN fly_by)
       /\ fly_call'.op = "FlyweightFactory" =>
            DOMAIN flyweights \subseteq DOMAIN flyweights'
      ]_vars

\* With two keys stored, the second factory was asked for a key stored
\* through the first and returned the object registered under it.
C24_Witness ==
    /\ fly_call.op = "get_flyweight"
    /\ fly_call.self = 2
    /\ fly_by[get_key(fly_call.arg)] = 1
    /\ fly_held = flyweights[get_key(fly_call.arg)]
    /\ Cardinality(DOMAIN flyweights) = 2


---------------------------------------------------------------------------
(***************************************************************************)
(* Builder: properties                                                     *)
(***************************************************************************)

\* C10: every fetch of builder.product returns a product whose parts are
\* exactly the parts of the produce_part_* calls made since the previous
\* fetch (or since construction), in call order, and a fetch that
\* immediately follows a fetch returns a product without parts.
C10_FetchReturnsPartsSinceLastFetch ==
    [][b_op' = "product" =>
          /\ b_heap'[b_fetched'] = [i \in 1 .. Len(b_calls) |-> PartOf(b_calls[i])]
          /\ b_op = "product" => b_heap'[b_fetched'] = <<>>
      ]_vars

\* A second fetch returned a custom product of two parts after a first
\* fetch had returned a product with parts.
C10_Witness ==
    /\ b_op = "product"
    /\ b_fetched >= 2
    /\ b_heap[b_fetched] = <<"PartA1", "PartB1">>
    /\ b_heap[b_fetched - 1] # <<>>


\* The recipe step left the builder's product object, the fetched product
\* and every other product object as they were, and created no object.
RecipeKeepsProduct ==
    /\ b_product' = b_product
    /\ b_fetched' = b_fetched
    /\ Len(b_heap') = Len(b_heap)
    /\ \A id \in 1 .. Len(b_heap) : id # b_product => b_heap'[id] = b_heap[id]

\* C11: on a builder whose in-progress product is empty,
\* build_minimal_viable_product leaves it with exactly [PartA1] and
\* build_full_featured_product with exactly [PartA1, PartB1, PartC1];
\* neither recipe fetches the product or replaces the product object.
C11_DirectorRecipes ==
    [][/\ (b_op' = "build_minimal_viable_product" /\ b_heap[b_product] = <<>>) =>
            /\ b_heap'[b_product'] = <<"PartA1">>
            /\ RecipeKeepsProduct
       /\ (b_op' = "build_full_featured_product" /\ b_heap[b_product] = <<>>) =>
            /\ b_heap'[b_product'] = <<"PartA1", "PartB1", "PartC1">>
            /\ RecipeKeepsProduct
      ]_vars

\* As in the main program: the minimal product was fetched, then the full
\* recipe ran on the fresh product.
C11_Witness ==
    /\ b_op = "build_full_featured_product"
    /\ b_heap[b_product] = <<"PartA1", "PartB1", "PartC1">>
    /\ b_fetched # None
    /\ b_heap[b_fetched] = <<"PartA1">>
\* C25: no produce_part_* call, director recipe or fetch changes the parts
\* of a product that a fetch has returned, and a fetch never returns an
\* object that an earlier fetch returned.
C25_FetchedProductsStayApart ==
    [][/\ \A i \in 1 .. Len(b_returned) :
             b_heap'[b_returned[i]] = b_heap[b_returned[i]]
       /\ b_op' = "product" =>
             /\ b_returned' = Append(b_returned, b_fetched')
             /\ \A i \in 1 .. Len(b_returned) : b_returned[i] # b_fetched'
             /\ b_product' # b_fetched'
      ]_vars

\* Two products were fetched, the first with parts, and a director recipe
\* has since added a part to the product in progress.
C25_Witness ==
    /\ Len(b_returned) = 2
    /\ b_returned[1] # b_returned[2]
    /\ b_heap[b_returned[1]] = <<"PartA1", "PartB1">>
    /\ b_op = "build_minimal_viable_product"
    /\ b_heap[b_product] = <<"PartA1">>


---------------------------------------------------------------------------
(***************************************************************************)
(* Composite: properties                                                   *)
(***************************************************************************)

RECURSIVE Descendants(_, _, _)
\* The components found below the components of cs in at most n levels.
Descendants(ch, cs, n) ==
    IF n = 0 THEN {}
    ELSE LET below == UNION {{ch[c][i] : i \in 1 .. Len(ch[c])} :
                             c \in cs \cap Composites}
         IN  below \cup Descendants(ch, below, n - 1)

Below(ch, c) == Descendants(ch, {c}, Cardinality(Components))

\* No component at or below c is found below itself.
AcyclicBelow(ch, c) ==
    \A d \in {c} \cup Below(ch, c) : d \notin Below(ch, d)

\* The _children lists the main program builds.
MainTree ==
    [c \in Composites |->
        CASE c = "tree" -> <<"branch1", "branch2">>
          [] c = "branch1" -> <<"leaf1", "leaf2">>
          [] c = "branch2" -> <<"leaf3">>]

\* C12: operation() on a component with no cycle below it returns "Leaf" for
\* a leaf and, for a composite, "Branch(" + the results of its children's
\* operation() in the order of the _children list joined by "+" + ")"
\* ("Branch()" without children), a value fixed by the children's results
\* alone; on the main program's tree it returns
\* "Branch(Branch(Leaf+Leaf)+Branch(Leaf))".
C12_OperationFormatsChildren ==
    (c_op.op = "operation" /\ AcyclicBelow(children, c_op.self)) =>
        LET self == c_op.self
            results == [i \in 1 .. Len(children[self]) |->
                          composite_operation(children, children[self][i], 1)]
        IN  /\ self \in Leaves => c_result = "Leaf"
            /\ self \in Composites =>
                 /\ c_result = "Branch(" \o join_str("+", results) \o ")"
                 /\ children[self] = <<>> => c_result = "Branch()"
            /\ (self = "tree" /\ children = MainTree) =>
                 c_result = "Branch(Branch(Leaf+Leaf)+Branch(Leaf))"

C12_Witness ==
    /\ c_op.op = "operation"
    /\ c_op.self = "tree"
    /\ children = MainTree
    /\ c_result = "Branch(Branch(Leaf+Leaf)+Branch(Leaf))"

\* C13: for a composite p, p.add(c) appends c to p's _children and sets
\* c.parent to p, and p.remove(c) with c in p's _children raises nothing,
\* takes one occurrence of c out of p's _children and sets c.parent to None;
\* both leave every other list and every other parent as they were.
C13_AddAndRemove ==
    [][LET p == c_op'.self
           c == c_op'.component
       IN  /\ (c_op'.op = "add" /\ p \in Composites) =>
                 /\ children' = [children EXCEPT ![p] = Append(@, c)]
                 /\ parent' = [parent EXCEPT ![c] = p]
           /\ (c_op'.op = "remove" /\ p \in Composites
                   /\ Occurs(children[p], c)) =>
                 /\ ~c_op'.raised
                 /\ \E i \in 1 .. Len(children[p]) :
                      /\ children[p][i] = c
                      /\ children' = [children EXCEPT ![p] = RemoveAt(@, i)]
                 /\ parent' = [parent EXCEPT ![c] = "None"]
      ]_vars

\* A component added twice to one composite and removed once.
C13_Witness ==
    /\ c_op.op = "remove"
    /\ ~c_op.raised
    /\ c_op.self \in Composites
    /\ Occurs(children[c_op.self], c_op.component)
    /\ parent[c_op.component] = "None"

\* C22: after any add and remove calls, a component's parent is p exactly
\* when the component is in p's _children, and the parent of a component
\* that has been given a parent and is in no composite's _children is None.
C22_ParentMatchesChildren ==
    \A c \in Components :
        /\ \A p \in Composites : parent[c] = p <=> Occurs(children[p], c)
        /\ (parent[c] # "unset"
                /\ \A p \in Composites : ~Occurs(children[p], c))
              => parent[c] = "None"


---------------------------------------------------------------------------
(***************************************************************************)
(* Decorator: properties                                                   *)
(***************************************************************************)

RECURSIVE WrapOrder(_, _)
\* The classes of the decorators around the ConcreteComponent, in the order
\* in which they were wrapped around it, the outermost being self.
WrapOrder(heap, self) ==
    IF heap[self].cls = "ConcreteComponent" THEN <<>>
    ELSE Append(WrapOrder(heap, heap[self].component), heap[self].cls)

RECURSIVE Nested(_, _)
\* d_n(...d_1(inner)...) for the layers d_1..d_n, a Decorator layer adding
\* nothing.
Nested(layers, inner) ==
    IF layers = <<>> THEN inner
    ELSE Nested(Tail(layers),
                IF Head(layers) = "Decorator" THEN inner
                ELSE Head(layers) \o "(" \o inner \o ")")

\* C14: operation() on the outermost of the decorators d1..dn wrapped in
\* that order around a ConcreteComponent returns dn(...d1(Concrete
\* Component)...), a Decorator layer leaving the wrapped result unchanged;
\* A then B gives "ConcreteDecoratorB(ConcreteDecoratorA(Concrete
\* Component))".
C14_NestingFollowsWrapOrder ==
    dec_op # None =>
        /\ dec_result = Nested(WrapOrder(dec_heap, dec_op), "Concrete Component")
        /\ WrapOrder(dec_heap, dec_op) = <<"ConcreteDecoratorA", "ConcreteDecoratorB">>
              => dec_result = "ConcreteDecoratorB(ConcreteDecoratorA(Concrete Component))"
        /\ dec_heap[dec_op].cls = "Decorator"
              => dec_result = decorator_operation(dec_heap, dec_heap[dec_op].component)

\* B around a Decorator around A.
C14_Witness ==
    /\ dec_op # None
    /\ WrapOrder(dec_heap, dec_op) =
          <<"ConcreteDecoratorA", "Decorator", "ConcreteDecoratorB">>
    /\ dec_result = "ConcreteDecoratorB(ConcreteDecoratorA(Concrete Component))"

---------------------------------------------------------------------------
(***************************************************************************)
(* Proxy: properties                                                       *)
(***************************************************************************)

IsPrefix(s, t) == Len(s) <= Len(t) /\ s = SubSeq(t, 1, Len(s))

ProxyCalls == {i \in 1 .. Len(p_calls) : p_calls[i].cls # "RealSubject"}

\* C15: in every Proxy.request call whose check_access returned True the
\* events so far are the beginning of check_access, RealSubject.request,
\* log_access, and all three have happened, once each, when the call has
\* returned.
C15_CheckThenRequestThenLog ==
    \A i \in ProxyCalls :
        p_calls[i].access = "True" =>
            /\ IsPrefix(p_calls[i].events,
                        <<"check_access", "RealSubject.request", "log_access">>)
            /\ p_calls[i].ended = "returned" =>
                 p_calls[i].events =
                     <<"check_access", "RealSubject.request", "log_access">>

C15_Witness ==
    \E i \in ProxyCalls :
        /\ p_calls[i].access = "True"
        /\ p_calls[i].ended = "returned"
        /\ Len(p_calls[i].events) = 3

\* C16: in every Proxy.request call whose check_access returned False the
\* only event is the check: neither RealSubject.request nor log_access
\* happens, nothing is raised, and the call is at its return or has
\* returned.
C16_DeniedCallDoesNothing ==
    \A i \in ProxyCalls :
        p_calls[i].access = "False" =>
            /\ p_calls[i].events = <<"check_access">>
            /\ p_calls[i].ended \in {"no", "returned"}
            /\ p_calls[i].ended = "no" => (i = Len(p_calls) /\ p_pc = "return")

C16_Witness ==
    \E i \in ProxyCalls :
        /\ p_calls[i].access = "False"
        /\ p_calls[i].ended = "returned"
        /\ p_calls[i].events = <<"check_access">>

---------------------------------------------------------------------------
(***************************************************************************)
(* Facade: properties                                                      *)
(***************************************************************************)

\* The subsystem object the facade is to use for a constructor argument:
\* the argument, or one the constructor created when the argument is None.
UsesArgument(facade, argument, used) ==
    IF argument # None THEN used = argument ELSE used \in facade.created

\* C17: every Facade holds, and its operation() calls, exactly the
\* subsystem objects passed to its constructor, or objects its constructor
\* created where None was passed, whatever the module's other variables
\* hold.
C17_FacadeCoordinatesItsArguments ==
    /\ \A i \in 1 .. Len(f_facades) :
          /\ UsesArgument(f_facades[i], f_facades[i].subststem1,
                          f_facades[i]._subsystem1)
          /\ UsesArgument(f_facades[i], f_facades[i].subststem2,
                          f_facades[i]._subsystem2)
    /\ f_op.op = "operation" =>
          \A k \in 1 .. Len(f_calls) :
              \/ UsesArgument(f_facades[f_op.facade],
                              f_facades[f_op.facade].subststem1,
                              f_calls[k].object)
              \/ UsesArgument(f_facades[f_op.facade],
                              f_facades[f_op.facade].subststem2,
                              f_calls[k].object)

\* C18: every operation() calls _subsystem1.operation1,
\* _subsystem2.operation1, _subsystem1.operation_n, _subsystem2.operation_z
\* in this order, each once, and returns "Facade init:", the first two
\* results, "Facade orders subsystems to perform the action:" and the last
\* two results, joined by newlines.
C18_FixedCallOrderAndResult ==
    f_op.op = "operation" =>
        LET self == f_facades[f_op.facade] IN
        /\ [k \in 1 .. Len(f_calls) |->
                <<f_calls[k].object, f_calls[k].method>>] =
             << <<self._subsystem1, "operation1">>,
                <<self._subsystem2, "operation1">>,
                <<self._subsystem1, "operation_n">>,
                <<self._subsystem2, "operation_z">> >>
        /\ f_result = "Facade init:\nSubsystem1: Ready!\nSubsystem2: Get ready!\nFacade orders subsystems to perform the action:\nSubsystem1: Go!\nSubsystem2: Fire!"
        /\ f_result = join_str("\n",
              <<"Facade init:", f_calls[1].result, f_calls[2].result,
                "Facade orders subsystems to perform the action:",
                f_calls[3].result, f_calls[4].result>>)

C18_Witness ==
    /\ f_op.op = "operation"
    /\ Len(f_calls) = 4
    /\ f_calls[1].object # f_calls[2].object
    /\ f_calls[3].result = "Subsystem1: Go!"

---------------------------------------------------------------------------
(***************************************************************************)
(* Abstract Factory: properties                                            *)
(***************************************************************************)

\* The variant a product class or a factory class belongs to.
VariantOf(cls) ==
    IF cls \in {"ConcreteProductA1", "ConcreteProductB1", "ConcreteFactory1"}
    THEN "variant 1"
    ELSE "variant 2"

\* C19: every product is of its factory's variant (A1 and B1 from
\* ConcreteFactory1, A2 and B2 from ConcreteFactory2), so whatever creation
\* calls were made, two products of one factory are of one variant.
C19_OneVariantPerFactory ==
    /\ \A i \in 1 .. Len(af_products) :
          /\ VariantOf(af_products[i].cls) = VariantOf(af_products[i].factory)
          /\ af_products[i].factory = "ConcreteFactory1" =>
                af_products[i].cls \in {"ConcreteProductA1", "ConcreteProductB1"}
          /\ af_products[i].factory = "ConcreteFactory2" =>
                af_products[i].cls \in {"ConcreteProductA2", "ConcreteProductB2"}
    /\ \A i, j \in 1 .. Len(af_products) :
          af_products[i].factory = af_products[j].factory =>
              VariantOf(af_products[i].cls) = VariantOf(af_products[j].cls)

\* Both factories have created a product A and a product B.
C19_Witness ==
    {af_products[i].cls : i \in 1 .. Len(af_products)} =
        {"ConcreteProductA1", "ConcreteProductB1",
         "ConcreteProductA2", "ConcreteProductB2"}

---------------------------------------------------------------------------
(***************************************************************************)
(* Bridge: properties                                                      *)
(***************************************************************************)

Last(s) == s[Len(s)]

\* C20: operation() on an Abstraction or ExtendedAbstraction delegates to
\* the implementation object given to the abstraction last - at
\* construction or by a later replacement - and returns the class's header
\* line followed by that implementation's result; it does not delegate to
\* an implementation that has been replaced by another.
C20_DelegatesToCurrentImplementation ==
    br_op # None =>
        LET given == br_assigned[br_op]
            current == Last(given)
            header == IF br_abstractions[br_op].cls = "Abstraction"
                      THEN "Abstraction: Base operation with:\n"
                      ELSE "ExtendedAbstraction: Extended operation with:\n"
        IN  /\ br_abstractions[br_op].implementation = current
            /\ br_called = current
            /\ br_result = header \o operation_implementation(br_impls[current])
            /\ \A k \in 1 .. (Len(given) - 1) :
                  /\ given[k] # current => br_called # given[k]
                  /\ br_impls[given[k]] # br_impls[current] =>
                        br_result # header
                            \o operation_implementation(br_impls[given[k]])

\* operation() after the implementation was replaced by an object of the
\* other class.
C20_Witness ==
    /\ br_op # None
    /\ Len(br_assigned[br_op]) >= 2
    /\ br_impls[br_assigned[br_op][1]] # br_impls[Last(br_assigned[br_op])]
    /\ br_called = Last(br_assigned[br_op])

====
